---- MODULE Spec2Model ----
(***************************************************************************)
(* A model of the palette generator of src/main.py: the colour-space       *)
(* conversions, adjust_hsl, generate_harmony_colors and generate_palette.  *)
(*                                                                         *)
(* Representation.                                                         *)
(*  - A Python string is a sequence of one-character strings, so that      *)
(*    slicing and per-character parsing are modelled as the code does them.*)
(*  - A hue is a Python float.  It is written <<n, k>> and denotes the     *)
(*    IEEE-754 double  n + k * 2^-49  (n, k integers, |k| < 2^20).  Float  *)
(*    addition and Python's float % are modelled exactly on these values,  *)
(*    round-to-nearest-even included (f_add_int, py_mod360).               *)
(*  - Saturation and lightness are whole-number percentages: the code only *)
(*    adds an integer to them and clamps.                                  *)
(*  - hsl_to_rgb is computed in exact rational arithmetic on the integer   *)
(*    part of the hue.  The code computes it in binary floating point, so  *)
(*    a channel whose exact value is a whole number may come out one lower *)
(*    in the code (int() truncates); nothing below depends on that digit.  *)
(*  - rgb_to_hsl uses integer division; the colours the model feeds it are *)
(*    chosen so that every division is exact and the code's float result   *)
(*    is the same whole number.                                            *)
(***************************************************************************)
EXTENDS Integers, Sequences, FiniteSets, TLC

VARIABLES
    input,              \* generate_palette: the caller's `colors` argument
    mode,               \* generate_palette: argument
    harmony,            \* generate_palette: argument
    hue_shift,          \* generate_palette: argument
    saturation_adjust,  \* generate_palette: argument
    lightness_adjust,   \* generate_palette: argument
    colors,             \* generate_palette: the local `colors` after line 50
    hsl_colors,         \* generate_palette: local dict role -> HSL
    palette,            \* generate_palette: local dict being built
    pc,                 \* generate_palette: position in the function body
    err,                \* the exception raised, "none" while there is none
    hexIn,              \* hex_to_rgb run: the argument
    hexOut,             \* hex_to_rgb run: the returned tuple
    hexPc,              \* hex_to_rgb run: "idle" | "call" | "returned" | "raised"
    adjIn,              \* adjust_hsl run: the hsl argument
    adjArgs,            \* adjust_hsl run: <<hue_shift, saturation_adjust, lightness_adjust>>
    adjOut,             \* adjust_hsl run: the returned tuple
    adjPc               \* adjust_hsl run: "idle" | "call" | "returned"

paletteVars == <<input, mode, harmony, hue_shift, saturation_adjust,
                 lightness_adjust, colors, hsl_colors, palette, pc, err>>
hexVars == <<hexIn, hexOut, hexPc>>
adjVars == <<adjIn, adjArgs, adjOut, adjPc>>
vars == <<paletteVars, hexVars, adjVars>>

----------------------------------------------------------------------------
(* Bounds of the model.                                                    *)

\* the largest number of roles in a supplied mapping
MaxRoles == 3
\* the longest string handed to hex_to_rgb
MaxHexLen == 8

----------------------------------------------------------------------------
(* Small helpers.                                                          *)

Min(a, b) == IF a < b THEN a ELSE b
Max(a, b) == IF a > b THEN a ELSE b

\* d[k] = v on a dict: an existing key is overwritten
SetItem(d, k, v) == (k :> v) @@ d

----------------------------------------------------------------------------
(* Strings and hexadecimal.                                                *)

HexChars == <<"0", "1", "2", "3", "4", "5", "6", "7",
              "8", "9", "a", "b", "c", "d", "e", "f">>

IsHexDigit(ch) == \E i \in DOMAIN HexChars : HexChars[i] = ch
DigitVal(ch) == (CHOOSE i \in DOMAIN HexChars : HexChars[i] = ch) - 1

\* s[i:i+2] with a 0-based i: at most two characters, fewer (or none) when
\* the string is too short; never an error
py_slice(s, i) ==
    IF i >= Len(s) THEN << >> ELSE SubSeq(s, i + 1, Min(i + 2, Len(s)))

\* int(t, 16) raises ValueError on the empty string and on a character
\* that is no hex digit (the model's alphabet has no sign, blank, "_" or "x")
int16_raises(t) == Len(t) = 0 \/ \E j \in 1..Len(t) : ~IsHexDigit(t[j])
int16(t) ==
    IF Len(t) = 1 THEN DigitVal(t[1])
    ELSE 16 * DigitVal(t[1]) + DigitVal(t[2])

hex_to_rgb_raises(hex_color) ==
    \E i \in {1, 3, 5} : int16_raises(py_slice(hex_color, i))
hex_to_rgb(hex_color) ==
    << int16(py_slice(hex_color, 1)),
       int16(py_slice(hex_color, 3)),
       int16(py_slice(hex_color, 5)) >>

\* f"{v:02x}" for a channel 0..255
Hex2(v) == << HexChars[(v \div 16) + 1], HexChars[(v % 16) + 1] >>
rgb_to_hex(rgb) == <<"#">> \o Hex2(rgb[1]) \o Hex2(rgb[2]) \o Hex2(rgb[3])

----------------------------------------------------------------------------
(* Floats <<n, k>> = n + k * 2^-49.                                        *)

f_neg(x) == x[1] < 0 \/ (x[1] = 0 /\ x[2] < 0)

\* floor(|x|)
f_abs_floor(x) ==
    IF f_neg(x) THEN (IF x[2] > 0 THEN -x[1] - 1 ELSE -x[1])
    ELSE (IF x[2] < 0 THEN x[1] - 1 ELSE x[1])

RECURSIVE Log2Floor(_)
Log2Floor(m) == IF m < 2 THEN 0 ELSE 1 + Log2Floor(m \div 2)

\* the spacing of doubles around x, in units of 2^-49: 2^(E-3) in the
\* binade [2^E, 2^(E+1)) for E >= 3; below 8 every <<n, k>> is a double
ulp_grid(x) ==
    LET m == f_abs_floor(x)
    IN  IF m < 16 THEN 1 ELSE 2 ^ (Log2Floor(m) - 3)

\* k rounded to the nearest multiple of g, a tie to the even multiple
round_even(k, g) ==
    LET q == k \div g
        r == k - q * g
    IN  IF 2 * r < g THEN q * g
        ELSE IF 2 * r > g THEN (q + 1) * g
        ELSE IF q % 2 = 0 THEN q * g ELSE (q + 1) * g

\* x + i for a float x and an int i: the exact sum, rounded to a double
f_add_int(x, i) ==
    LET s == <<x[1] + i, x[2]>>
    IN  <<s[1], round_even(s[2], ulp_grid(s))>>

\* x % 360 as CPython computes it (float_rem): mod = fmod(x, 360), exact;
\* a negative mod gets 360 added (a rounded float addition); a zero mod is 0
py_mod360(x) ==
    LET q == IF f_neg(x) THEN -(f_abs_floor(x) \div 360)
             ELSE f_abs_floor(x) \div 360
        mod == <<x[1] - 360 * q, x[2]>>
    IN  IF mod = <<0, 0>> THEN <<0, 0>>
        ELSE IF f_neg(mod) THEN f_add_int(mod, 360)
        ELSE mod

----------------------------------------------------------------------------
(* Colour-space conversions.                                               *)

Max3(t) == Max(t[1], Max(t[2], t[3]))
Min3(t) == Min(t[1], Min(t[2], t[3]))

\* colorsys.rgb_to_hls on r/255, g/255, b/255, then (h*360, s*100, l*100)
rgb_to_hsl(rgb) ==
    LET maxc == Max3(rgb)
        minc == Min3(rgb)
        sumc == maxc + minc
        rangec == maxc - minc
        l == (100 * sumc) \div 510
        s == IF sumc <= 255 THEN (100 * rangec) \div sumc
             ELSE (100 * rangec) \div (510 - sumc)
        h6 == IF rgb[1] = maxc THEN 60 * (rgb[2] - rgb[3])
              ELSE IF rgb[2] = maxc THEN 120 * rangec + 60 * (rgb[3] - rgb[1])
              ELSE 240 * rangec + 60 * (rgb[1] - rgb[2])
    IN  IF minc = maxc THEN << <<0, 0>>, 0, l >>
        ELSE << <<(h6 \div rangec) % 360, 0>>, s, l >>

\* colorsys._v, times 600000: m1, m2 in units of 1/10000, hue in degrees
hls_v(m1, m2, hue) ==
    LET hd == hue % 360
    IN  IF hd < 60 THEN 60 * m1 + (m2 - m1) * hd
        ELSE IF hd < 180 THEN 60 * m2
        ELSE IF hd < 240 THEN 60 * m1 + (m2 - m1) * (240 - hd)
        ELSE 60 * m1

\* colorsys.hls_to_rgb on (h/360, l/100, s/100), each channel int(x * 255)
hsl_to_rgb(hsl) ==
    LET h == hsl[1][1]
        s == hsl[2]
        l == hsl[3]
        m2 == IF l <= 50 THEN l * (100 + s) ELSE 100 * l + 100 * s - l * s
        m1 == 200 * l - m2
    IN  IF s = 0
        THEN << (255 * l) \div 100, (255 * l) \div 100, (255 * l) \div 100 >>
        ELSE << (255 * hls_v(m1, m2, h + 120)) \div 600000,
                (255 * hls_v(m1, m2, h)) \div 600000,
                (255 * hls_v(m1, m2, h - 120)) \div 600000 >>

to_hex(hsl) == rgb_to_hex(hsl_to_rgb(hsl))

----------------------------------------------------------------------------
(* adjust_hsl and generate_harmony_colors.                                 *)

adjust_hsl(hsl, hs, sa, la) ==
    << py_mod360(f_add_int(hsl[1], hs)),
       Max(0, Min(100, hsl[2] + sa)),
       Max(0, Min(100, hsl[3] + la)) >>

HarmonyKeys == {"1", "2", "3", "4"}

\* the `harmonies` dict; harmonies[harmony_type] raises KeyError for a
\* key outside HarmonyKeys
harmonies(base_hue, harmony_type) ==
    CASE harmony_type = "1" ->
            << base_hue, py_mod360(f_add_int(base_hue, 180)) >>
      [] harmony_type = "2" ->
            << base_hue, py_mod360(f_add_int(base_hue, 30)),
               py_mod360(f_add_int(base_hue, -30)) >>
      [] harmony_type = "3" ->
            << base_hue, py_mod360(f_add_int(base_hue, 120)),
               py_mod360(f_add_int(base_hue, -120)) >>
      [] harmony_type = "4" ->
            << base_hue, py_mod360(f_add_int(base_hue, 90)),
               py_mod360(f_add_int(base_hue, 180)),
               py_mod360(f_add_int(base_hue, 270)) >>

generate_harmony_colors(base_hsl, harmony_type) ==
    LET hs == harmonies(base_hsl[1], harmony_type)
    IN  [i \in 1..Len(hs) |-> << hs[i], base_hsl[2], base_hsl[3] >>]

\* a variant with the two outer shades in the other order
generate_shades_swapped(color) ==
    << adjust_hsl(color, 0, 0, 30), color, adjust_hsl(color, 0, 0, -30) >>

generate_shades(color) ==
    << adjust_hsl(color, 0, 0, -30), color, adjust_hsl(color, 0, 0, 30) >>

----------------------------------------------------------------------------
(* The inputs the model draws from.                                        *)

Red == <<"#", "f", "f", "0", "0", "0", "0">>       \* HSL (0, 100, 50)
Blue == <<"#", "0", "0", "6", "6", "c", "c">>      \* HSL (210, 100, 40)
NotHex == <<"#", "g", "g", "0", "0", "0", "0">>    \* int("gg", 16) raises

GoodColors == {Red, Blue}
Colors == GoodColors \cup {NotHex}

RoleNames == {"primary", "secondary", "tertiary", "accent", "semantic", "brand"}
GroupKeys == {"semantic", "surface", "brand"}

Mappings ==
    UNION { [S -> Colors] :
              S \in {T \in SUBSET RoleNames : Cardinality(T) <= MaxRoles} }

Inputs == { [tag |-> "str", val |-> c] : c \in Colors }
          \cup { [tag |-> "map", val |-> m] : m \in Mappings }

Modes == {"light", "dark"}
Harmonies == HarmonyKeys \cup {"5"}
Adjustments == { <<0, 0, 0>>, <<-10, -50, 40>>, <<370, 1000, -1000>>,
                 <<190, -1000, 20>> }

HexAlphabet == {"#", "0", "f", "g"}
HexStrings == UNION { [1..n -> HexAlphabet] : n \in 0..MaxHexLen }

\* hues as rgb_to_hsl returns them: 0.0, 14.999999999999995 (#cc3300),
\* 30.000000000000007 (#ffcc99), 199.99999999999997 (#006699), 210.0, 359.0
AdjHues == { <<0, 0>>, <<15, -3>>, <<30, 4>>, <<200, -16>>, <<210, 0>>,
             <<359, 0>> }
AdjInputs == { <<h, s, l>> : h \in AdjHues, s \in {0, 50, 100}, l \in {0, 40, 100} }
AdjArgSet == { <<hs, sa, la>> : hs \in {-370, -180, -15, 0, 10, 370},
                                sa \in {-1000, -20, 0, 1000},
                                la \in {-1000, -20, 0, 1000} }

NoInput == [tag |-> "str", val |-> << >>]

PaletteIdle ==
    /\ input = NoInput /\ mode = "light" /\ harmony = "1"
    /\ hue_shift = 0 /\ saturation_adjust = 0 /\ lightness_adjust = 0
    /\ colors = << >> /\ hsl_colors = << >> /\ palette = << >>
    /\ pc = "idle" /\ err = "none"
HexIdle == hexIn = << >> /\ hexOut = << >> /\ hexPc = "idle"
AdjIdle == adjIn = << >> /\ adjArgs = << >> /\ adjOut = << >> /\ adjPc = "idle"

----------------------------------------------------------------------------
(* generate_palette, statement by statement.                               *)

Init ==
    /\ input \in Inputs
    /\ mode \in Modes
    /\ harmony \in Harmonies
    /\ \E a \in Adjustments :
          hue_shift = a[1] /\ saturation_adjust = a[2] /\ lightness_adjust = a[3]
    /\ colors = << >> /\ hsl_colors = << >> /\ palette = << >>
    /\ pc = "start" /\ err = "none"
    /\ HexIdle /\ AdjIdle

args == <<input, mode, harmony, hue_shift, saturation_adjust, lightness_adjust>>

\* lines 49-50: a single string becomes {'primary': colors}
Normalize ==
    /\ pc = "start"
    /\ colors' = IF input.tag = "str" THEN [primary |-> input.val] ELSE input.val
    /\ pc' = "convert"
    /\ UNCHANGED <<args, hsl_colors, palette, err, hexVars, adjVars>>

\* line 53, a value hex_to_rgb cannot parse: ValueError
ConvertRaises ==
    /\ pc = "convert"
    /\ \E k \in DOMAIN colors : hex_to_rgb_raises(colors[k])
    /\ pc' = "raised"
    /\ err' = "ValueError"
    /\ UNCHANGED <<args, colors, hsl_colors, palette, hexVars, adjVars>>

\* a variant that fills in a default primary instead of leaving it out
Convert_defaults ==
    /\ pc = "convert"
    /\ \A k \in DOMAIN colors : ~hex_to_rgb_raises(colors[k])
    /\ hsl_colors' = [k \in DOMAIN colors \cup {"primary"} |->
                        IF k \in DOMAIN colors
                        THEN rgb_to_hsl(hex_to_rgb(colors[k]))
                        ELSE << <<0, 0>>, 100, 50 >>]
    /\ pc' = "derive"
    /\ UNCHANGED <<input, mode, harmony, hue_shift, saturation_adjust,
                   lightness_adjust, colors, palette, err, hexVars, adjVars>>

\* line 53
Convert ==
    /\ pc = "convert"
    /\ \A k \in DOMAIN colors : ~hex_to_rgb_raises(colors[k])
    /\ hsl_colors' = [k \in DOMAIN colors |-> rgb_to_hsl(hex_to_rgb(colors[k]))]
    /\ pc' = "derive"
    /\ UNCHANGED <<args, colors, palette, err, hexVars, adjVars>>

\* a variant that also derives when exactly 3 roles are supplied
derives_upto3 ==
    "primary" \in DOMAIN hsl_colors /\ Cardinality(DOMAIN hsl_colors) <= 3

derives == "primary" \in DOMAIN hsl_colors /\ Cardinality(DOMAIN hsl_colors) < 3

\* line 56 false: nothing is derived and `harmony` is not looked at
DeriveSkip ==
    /\ pc = "derive"
    /\ ~derives
    /\ pc' = "adjust"
    /\ UNCHANGED <<args, colors, hsl_colors, palette, err, hexVars, adjVars>>

\* line 57 -> line 46: harmonies[harmony_type] raises KeyError
DeriveRaises ==
    /\ pc = "derive"
    /\ derives
    /\ harmony \notin HarmonyKeys
    /\ pc' = "raised"
    /\ err' = "KeyError:harmony"
    /\ UNCHANGED <<args, colors, hsl_colors, palette, hexVars, adjVars>>

\* a variant that sets secondary whether or not it was supplied
derived_overwrites(hsl, harmony_type) ==
    LET harmony_colors == generate_harmony_colors(hsl["primary"], harmony_type)
        with2 == SetItem(hsl, "secondary", harmony_colors[2])
    IN  IF "tertiary" \notin DOMAIN with2 /\ Len(harmony_colors) > 2
        THEN SetItem(with2, "tertiary", harmony_colors[3])
        ELSE with2

\* lines 57-61
derived(hsl, harmony_type) ==
    LET harmony_colors == generate_harmony_colors(hsl["primary"], harmony_type)
        with2 == IF "secondary" \notin DOMAIN hsl
                 THEN SetItem(hsl, "secondary", harmony_colors[2])
                 ELSE hsl
    IN  IF "tertiary" \notin DOMAIN with2 /\ Len(harmony_colors) > 2
        THEN SetItem(with2, "tertiary", harmony_colors[3])
        ELSE with2

Derive ==
    /\ pc = "derive"
    /\ derives
    /\ harmony \in HarmonyKeys
    /\ hsl_colors' = derived(hsl_colors, harmony)
    /\ pc' = "adjust"
    /\ UNCHANGED <<args, colors, palette, err, hexVars, adjVars>>

\* line 64
Adjust ==
    /\ pc = "adjust"
    /\ hsl_colors' = [k \in DOMAIN hsl_colors |->
                        adjust_hsl(hsl_colors[k], hue_shift, saturation_adjust,
                                   lightness_adjust)]
    /\ pc' = "shades"
    /\ UNCHANGED <<args, colors, palette, err, hexVars, adjVars>>

\* lines 74-75
shade_ramp(v) ==
    LET shades == generate_shades(v)
    IN  [i \in 1..Len(shades) |-> to_hex(shades[i])]

Shades ==
    /\ pc = "shades"
    /\ palette' = [k \in DOMAIN hsl_colors |-> shade_ramp(hsl_colors[k])]
    /\ pc' = "semantic"
    /\ UNCHANGED <<args, colors, hsl_colors, err, hexVars, adjVars>>

\* lines 78-80
semantic_hues == [error |-> 0, success |-> 120, info |-> 200, warning |-> 40]
semantic_colors(hs, sa, la) ==
    [k \in DOMAIN semantic_hues |->
        to_hex(adjust_hsl(<< <<semantic_hues[k], 0>>, 100, 50 >>, hs, sa, la))]

\* a variant that keeps a `semantic` entry the palette already has
Semantic_setdefault ==
    /\ pc = "semantic"
    /\ palette' = IF "semantic" \in DOMAIN palette THEN palette
                  ELSE SetItem(palette, "semantic",
                               semantic_colors(hue_shift, saturation_adjust,
                                               lightness_adjust))
    /\ pc' = "surface"
    /\ UNCHANGED <<input, mode, harmony, hue_shift, saturation_adjust,
                   lightness_adjust, colors, hsl_colors, err, hexVars, adjVars>>

\* lines 78-81
Semantic ==
    /\ pc = "semantic"
    /\ palette' = SetItem(palette, "semantic",
                          semantic_colors(hue_shift, saturation_adjust,
                                          lightness_adjust))
    /\ pc' = "surface"
    /\ UNCHANGED <<args, colors, hsl_colors, err, hexVars, adjVars>>

\* lines 84-91
surface_colors(m) ==
    LET surface_lightness == IF m = "light" THEN 95 ELSE 20
        on_surface_lightness == IF m = "light" THEN 10 ELSE 90
    IN  [ background |-> to_hex(<< <<0, 0>>, 0, surface_lightness >>),
          onSurface |-> to_hex(<< <<0, 0>>, 0, on_surface_lightness >>),
          onSurfaceVariant |-> to_hex(<< <<0, 0>>, 0, 50 >>),
          inverseOnSurface |-> to_hex(<< <<0, 0>>, 0, 100 - on_surface_lightness >>) ]

Surface ==
    /\ pc = "surface"
    /\ palette' = SetItem(palette, "surface", surface_colors(mode))
    /\ pc' = "brand"
    /\ UNCHANGED <<args, colors, hsl_colors, err, hexVars, adjVars>>

\* line 95: palette['primary'] raises KeyError
BrandRaises ==
    /\ pc = "brand"
    /\ "primary" \notin DOMAIN palette
    /\ pc' = "raised"
    /\ err' = "KeyError:primary"
    /\ UNCHANGED <<args, colors, hsl_colors, palette, hexVars, adjVars>>

\* a variant whose accent is secondary's lightest, else primary's darkest
brand_colors_accent_lightest(pal, hsl) ==
    [ newPrimary |-> pal["primary"][2],
      inversePrimary |-> to_hex(adjust_hsl(hsl["primary"], 180, 0, 0)),
      newAccent |-> IF "secondary" \in DOMAIN pal THEN pal["secondary"][3]
                    ELSE pal["primary"][1] ]

\* a variant that applies the global adjustment again with the inversion
brand_colors_readjusted(pal, hsl) ==
    [ newPrimary |-> pal["primary"][2],
      inversePrimary |-> to_hex(adjust_hsl(hsl["primary"], hue_shift + 180,
                                           saturation_adjust, lightness_adjust)),
      newAccent |-> IF "secondary" \in DOMAIN pal THEN pal["secondary"][2]
                    ELSE pal["primary"][3] ]

\* lines 94-98; Python indexes from 0, a sequence here from 1
brand_colors(pal, hsl) ==
    [ newPrimary |-> pal["primary"][2],
      inversePrimary |-> to_hex(adjust_hsl(hsl["primary"], 180, 0, 0)),
      newAccent |-> IF "secondary" \in DOMAIN pal THEN pal["secondary"][2]
                    ELSE pal["primary"][3] ]

\* a variant that goes on without a primary, with an empty brand group
Brand_lenient ==
    /\ pc = "brand"
    /\ palette' = SetItem(palette, "brand",
                          IF "primary" \in DOMAIN palette
                          THEN brand_colors(palette, hsl_colors)
                          ELSE << >>)
    /\ pc' = "return"
    /\ UNCHANGED <<input, mode, harmony, hue_shift, saturation_adjust,
                   lightness_adjust, colors, hsl_colors, err, hexVars, adjVars>>

Brand ==
    /\ pc = "brand"
    /\ "primary" \in DOMAIN palette
    /\ palette' = SetItem(palette, "brand", brand_colors(palette, hsl_colors))
    /\ pc' = "return"
    /\ UNCHANGED <<args, colors, hsl_colors, err, hexVars, adjVars>>

\* line 100
Return ==
    /\ pc = "return"
    /\ pc' = "returned"
    /\ UNCHANGED <<args, colors, hsl_colors, palette, err, hexVars, adjVars>>

Next ==
    \/ Normalize
    \/ ConvertRaises
    \/ Convert
    \/ DeriveSkip
    \/ DeriveRaises
    \/ Derive
    \/ Adjust
    \/ Shades
    \/ Semantic
    \/ Surface
    \/ BrandRaises
    \/ Brand
    \/ Return

Spec == Init /\ [][Next]_vars

----------------------------------------------------------------------------
(* hex_to_rgb alone, on arbitrary strings.                                 *)

InitHex ==
    /\ hexIn \in HexStrings /\ hexOut = << >> /\ hexPc = "call"
    /\ PaletteIdle /\ AdjIdle

HexRaises ==
    /\ hexPc = "call"
    /\ hex_to_rgb_raises(hexIn)
    /\ hexPc' = "raised"
    /\ UNCHANGED <<hexIn, hexOut, paletteVars, adjVars>>

HexReturns ==
    /\ hexPc = "call"
    /\ ~hex_to_rgb_raises(hexIn)
    /\ hexOut' = hex_to_rgb(hexIn)
    /\ hexPc' = "returned"
    /\ UNCHANGED <<hexIn, paletteVars, adjVars>>

NextHex == HexRaises \/ HexReturns

SpecHex == InitHex /\ [][NextHex]_vars

----------------------------------------------------------------------------
(* adjust_hsl alone.                                                       *)

InitAdjust ==
    /\ adjIn \in AdjInputs /\ adjArgs \in AdjArgSet
    /\ adjOut = << >> /\ adjPc = "call"
    /\ PaletteIdle /\ HexIdle

AdjustCall ==
    /\ adjPc = "call"
    /\ adjOut' = adjust_hsl(adjIn, adjArgs[1], adjArgs[2], adjArgs[3])
    /\ adjPc' = "returned"
    /\ UNCHANGED <<adjIn, adjArgs, paletteVars, hexVars>>

NextAdjust == AdjustCall

SpecAdjust == InitAdjust /\ [][NextAdjust]_vars

----------------------------------------------------------------------------
(* Vocabulary of the properties.                                           *)

Clamp100(x) == Max(0, Min(100, x))

\* '#rrggbb': 7 characters, '#' then six hex digits
IsHexColor(s) ==
    /\ Len(s) = 7
    /\ s[1] = "#"
    /\ \A i \in 2..7 : IsHexDigit(s[i])

\* the mapping generate_palette was called with (a single colour read as
\* {primary: colour})
Supplied == IF input.tag = "str" THEN {"primary"} ELSE DOMAIN input.val
SuppliedColor(k) == IF input.tag = "str" THEN input.val ELSE input.val[k]
AllParse == \A k \in Supplied : ~hex_to_rgb_raises(SuppliedColor(k))
SuppliedHsl(k) == rgb_to_hsl(hex_to_rgb(SuppliedColor(k)))

\* the keys of a palette that are roles
Roles(pal) == DOMAIN pal \ GroupKeys

Ended == pc \in {"returned", "raised"}

\* the scheme's hue offsets as the specification lists them
Offsets(scheme) ==
    CASE scheme = "1" -> <<0, 180>>
      [] scheme = "2" -> <<0, 30, -30>>
      [] scheme = "3" -> <<0, 120, -120>>
      [] scheme = "4" -> <<0, 90, 180, 270>>

----------------------------------------------------------------------------
(* C1. As claimed: in a returned palette brand.newAccent is the lightest   *)
(* shade (index 2) of secondary's ramp when the palette has a secondary,   *)
(* and the darkest shade (index 0) of primary's ramp otherwise.            *)
C1_AccentLightestOrDarkest ==
    pc = "returned" =>
        palette["brand"].newAccent =
            IF "secondary" \in DOMAIN palette THEN palette["secondary"][3]
            ELSE palette["primary"][1]

(* C1, amended: in a returned palette brand.newAccent is the base shade    *)
(* (index 1) of secondary's ramp when the palette has a secondary, and the *)
(* lightest shade (index 2) of primary's ramp otherwise.                   *)
C1_AccentBaseOrLightest ==
    pc = "returned" =>
        palette["brand"].newAccent =
            IF "secondary" \in DOMAIN palette THEN palette["secondary"][2]
            ELSE palette["primary"][3]

\* a returned palette with a derived secondary whose base and lightest
\* shades differ
C1_Witness ==
    /\ pc = "returned"
    /\ "secondary" \notin Supplied
    /\ "secondary" \in DOMAIN palette
    /\ palette["secondary"][2] # palette["secondary"][3]

----------------------------------------------------------------------------
(* C2. A mapping of well-formed colours without `primary` and with fewer   *)
(* than 3 roles never yields a palette, and the one exception the call     *)
(* raises is the KeyError for 'primary', whatever the mode, scheme and     *)
(* adjustment.                                                             *)
C2_MissingPrimaryRaises ==
    ( /\ input.tag = "map"
      /\ "primary" \notin DOMAIN input.val
      /\ Cardinality(DOMAIN input.val) < 3
      /\ AllParse )
    => /\ pc \notin {"return", "returned"}
       /\ pc = "raised" => err = "KeyError:primary"

\* {secondary: colour} with the unknown scheme has raised
C2_Witness ==
    /\ pc = "raised"
    /\ err = "KeyError:primary"
    /\ input.tag = "map"
    /\ DOMAIN input.val = {"secondary"}
    /\ harmony \notin HarmonyKeys

----------------------------------------------------------------------------
(* C3. After the derivation step every supplied role holds the HSL of its  *)
(* own colour; with primary supplied and fewer than 3 roles supplied a     *)
(* missing secondary is harmony hue 1 and a missing tertiary is harmony    *)
(* hue 2 when the scheme has 3 hues or more, each hue being primary's hue  *)
(* plus the scheme's offset mod 360, with primary's saturation and         *)
(* lightness; nothing else is added, and nothing at all with 3 roles or    *)
(* more or without primary.                                                *)
C3_Derivation ==
    pc = "adjust" =>
        LET p == SuppliedHsl("primary")
            offs == Offsets(harmony)
            hueAt(i) == << <<(p[1][1] + offs[i]) % 360, 0>>, p[2], p[3] >>
        IN  /\ \A k \in Supplied : hsl_colors[k] = SuppliedHsl(k)
            /\ IF "primary" \in Supplied /\ Cardinality(Supplied) < 3
               THEN /\ DOMAIN hsl_colors =
                          Supplied \cup {"secondary"}
                          \cup (IF Len(offs) >= 3 THEN {"tertiary"} ELSE {})
                    /\ "secondary" \notin Supplied
                          => hsl_colors["secondary"] = hueAt(2)
                    /\ ("tertiary" \notin Supplied /\ Len(offs) >= 3)
                          => hsl_colors["tertiary"] = hueAt(3)
               ELSE DOMAIN hsl_colors = Supplied

\* primary and secondary supplied, tertiary derived
C3_Witness ==
    /\ pc = "adjust"
    /\ Supplied = {"primary", "secondary"}
    /\ SuppliedColor("primary") # SuppliedColor("secondary")
    /\ "tertiary" \in DOMAIN hsl_colors

----------------------------------------------------------------------------
(* C4. A returned palette has the keys semantic (exactly error, success,   *)
(* info, warning), surface (exactly background, onSurface,                 *)
(* onSurfaceVariant, inverseOnSurface) and brand (exactly newPrimary,      *)
(* inversePrimary, newAccent), each entry a '#rrggbb' colour, and every    *)
(* other key is a ramp of exactly 3 '#rrggbb' colours.                     *)
IsGroup(g, keys) ==
    /\ Cardinality(DOMAIN g) = Cardinality(keys)
    /\ DOMAIN g = keys
    /\ \A k \in keys : IsHexColor(g[k])

C4_PaletteShape ==
    pc = "returned" =>
        /\ GroupKeys \subseteq DOMAIN palette
        /\ IsGroup(palette["semantic"], {"error", "success", "info", "warning"})
        /\ IsGroup(palette["surface"],
                   {"background", "onSurface", "onSurfaceVariant",
                    "inverseOnSurface"})
        /\ IsGroup(palette["brand"], {"newPrimary", "inversePrimary", "newAccent"})
        /\ \A k \in Roles(palette) :
              /\ DOMAIN palette[k] = 1..3
              /\ \A i \in 1..3 : IsHexColor(palette[k][i])

\* a palette returned for a mapping that uses the names semantic and brand
\* as roles
C4_Witness ==
    /\ pc = "returned"
    /\ {"semantic", "brand"} \subseteq Supplied

----------------------------------------------------------------------------
(* C5. As claimed: with a scheme outside the four recognised ones no       *)
(* palette is ever returned.                                               *)
C5_UnknownSchemeNeverReturns ==
    harmony \notin HarmonyKeys => pc # "returned"

(* C5, amended: with a scheme outside the four recognised ones the call    *)
(* ends in the scheme's KeyError exactly when primary is supplied with     *)
(* fewer than 3 roles (the one case in which the scheme is looked up);     *)
(* with 3 or more roles including primary it returns a palette, without    *)
(* primary it ends in the KeyError for 'primary', and a colour that does   *)
(* not parse ends it in ValueError before any of that.                     *)
C5_UnknownSchemeOutcome ==
    (harmony \notin HarmonyKeys /\ Ended) =>
        IF ~AllParse THEN pc = "raised" /\ err = "ValueError"
        ELSE IF "primary" \in Supplied /\ Cardinality(Supplied) < 3
             THEN pc = "raised" /\ err = "KeyError:harmony"
        ELSE IF "primary" \in Supplied THEN pc = "returned"
        ELSE pc = "raised" /\ err = "KeyError:primary"

\* a single seed colour with an unknown scheme has raised the scheme's
\* KeyError
C5_Witness ==
    /\ pc = "raised"
    /\ err = "KeyError:harmony"
    /\ input.tag = "str"

----------------------------------------------------------------------------
(* C6. As claimed: hex_to_rgb returns a triple exactly for a well-formed   *)
(* '#rrggbb' and raises for every other string.                            *)
C6_StrictParse ==
    hexPc \in {"returned", "raised"} =>
        (hexPc = "returned" <=> IsHexColor(hexIn))

----------------------------------------------------------------------------
(* C7. In a returned palette brand.inversePrimary is the colour of         *)
(* (primaryHue + hue_shift + 180) mod 360 with primary's saturation and    *)
(* lightness after one clamped adjustment, and brand.newPrimary is the     *)
(* middle entry of primary's ramp.                                         *)
C7_InversePrimary ==
    pc = "returned" =>
        LET p == SuppliedHsl("primary")
        IN  /\ palette["brand"].inversePrimary =
                  to_hex(<< <<(p[1][1] + hue_shift + 180) % 360, 0>>,
                            Clamp100(p[2] + saturation_adjust),
                            Clamp100(p[3] + lightness_adjust) >>)
            /\ palette["brand"].newPrimary = palette["primary"][2]

\* a palette returned under an adjustment that moves hue, saturation and
\* lightness, none of them clamped away
C7_Witness ==
    /\ pc = "returned"
    /\ hue_shift = -10 /\ saturation_adjust = -50 /\ lightness_adjust = 40
    /\ SuppliedColor("primary") = Blue

----------------------------------------------------------------------------
(* C8. In a returned palette every role's ramp is (c darkened by 30,       *)
(* c, c lightened by 30) for the role's adjusted colour c, lightness       *)
(* clamped to [0,100], hue and saturation those of c, each entry converted *)
(* to hex; the shades' lightness does not decrease along the ramp.         *)
C8_ShadeRamp ==
    pc = "returned" =>
        \A k \in Roles(palette) :
            LET c == hsl_colors[k]
                sh == generate_shades(c)
            IN  /\ palette[k] = << to_hex(<<c[1], c[2], Clamp100(c[3] - 30)>>),
                                   to_hex(c),
                                   to_hex(<<c[1], c[2], Clamp100(c[3] + 30)>>) >>
                /\ \A i \in 1..3 : sh[i][1] = c[1] /\ sh[i][2] = c[2]
                /\ sh[1][3] <= sh[2][3] /\ sh[2][3] <= sh[3][3]

\* a returned palette, built with a hue shift, with a role whose adjusted
\* lightness is within 30 of 100, so that its lightest shade is clamped
C8_Witness ==
    /\ pc = "returned"
    /\ \E k \in Roles(palette) : hsl_colors[k][3] > 70 /\ hsl_colors[k][3] < 100
    /\ hue_shift # 0

----------------------------------------------------------------------------
(* C9. As claimed: adjust_hsl returns a hue in [0,360), the same hue for   *)
(* a hue shift 360 larger, and saturation and lightness clamped to         *)
(* [0,100] after the addition.                                             *)
f_in_0_360(x) == ~f_neg(x) /\ (x[1] < 360 \/ (x[1] = 360 /\ x[2] < 0))

C9_AdjustWrapsAndClamps ==
    adjPc = "returned" =>
        /\ f_in_0_360(adjOut[1])
        /\ adjOut[1] = adjust_hsl(adjIn, adjArgs[1] + 360, adjArgs[2], adjArgs[3])[1]
        /\ adjOut[2] = Clamp100(adjIn[2] + adjArgs[2])
        /\ adjOut[3] = Clamp100(adjIn[3] + adjArgs[3])

----------------------------------------------------------------------------
(* C10. With colours that parse and a recognised scheme the call returns a *)
(* palette if and only if primary is among the supplied roles; otherwise   *)
(* (also with 3 roles or more) it raises the KeyError for 'primary', and   *)
(* does so at the brand step: the role ramps, the semantic and the surface *)
(* colours are in the palette and the brand group has not been assigned.  *)
(* The caller's argument is never changed.                                 *)
C10_State ==
    (AllParse /\ harmony \in HarmonyKeys /\ pc # "idle") =>
        /\ pc = "returned" => "primary" \in Supplied
        /\ pc = "raised" =>
              /\ "primary" \notin Supplied
              /\ err = "KeyError:primary"
              /\ DOMAIN palette = Supplied \cup {"semantic", "surface"}
              /\ \A k \in Supplied \ GroupKeys : DOMAIN palette[k] = 1..3
              /\ palette["semantic"] =
                     semantic_colors(hue_shift, saturation_adjust, lightness_adjust)
              /\ palette["surface"] = surface_colors(mode)

C10_ReturnsIffPrimary == [] C10_State /\ [][input' = input]_vars

\* a mapping of 3 roles without primary has raised
C10_Witness ==
    /\ pc = "raised"
    /\ err = "KeyError:primary"
    /\ Supplied = {"secondary", "tertiary", "accent"}
    /\ harmony \in HarmonyKeys

====
